---- MODULE Spec2Model ----
(***************************************************************************)
(* Model of sandlermisc.thermodynamicstate.ThermodynamicState: the         *)
(* attribute-write protocol, input tracking and auto-resolution engine.    *)
(*                                                                         *)
(* One ThermodynamicState object is modelled from the moment __new__ has   *)
(* returned.  The dataclass __init__ assigns the fields one by one (each   *)
(* through __setattr__), then calls __post_init__; afterwards the caller   *)
(* assigns attributes, swaps inputs or calls smart_resolve().  The         *)
(* abstract resolve() of the subclass runs between ResolveWrite steps and  *)
(* a ResolveReturn step; it is the only code that runs while another       *)
(* handler of the object is still on the call stack.                       *)
(***************************************************************************)
EXTENDS Integers, Sequences, FiniteSets, TLC

(* ---------------------------- bounds ----------------------------------- *)
\* magnitudes a caller or resolve may assign
MaxVal == 2

(* ---------------------------- values ----------------------------------- *)
\* Python values, by the distinctions the code makes (isinstance / is None)
NoneV == [k |-> "none"]
EmptyV == [k |-> "empty"]
Raw(m) == [k |-> "raw", m |-> m]
Qty(u, m) == [k |-> "qty", u |-> u, m |-> m]
Obj(m) == [k |-> "obj", m |-> m]

\* mutant: an empty container is not recognised
is_none_or_empty_mut(value) == value.k = "none"

is_none_or_empty(value) == value.k \in {"none", "empty"}

(* ------------------------ class-level data ----------------------------- *)
STATE_VAR_ORDERED_FIELDS == <<"T", "P", "v", "s", "h", "u">>

SeqRange(s) == {s[i] : i \in 1..Len(s)}

STATE_VAR_FIELDS == SeqRange(STATE_VAR_ORDERED_FIELDS) \cup {"x"}

\* the one parameter field a subclass of the model may declare
ParamName == "a"
\* attributes that are neither state variables nor bookkeeping
OtherNames == {"name", "Liquid", "Vapor", ParamName}

get_default_unit(field_name) ==
    CASE field_name = "P" -> "MPa"
      [] field_name = "T" -> "K"
      [] field_name = "v" -> "m3/mol"
      [] field_name = "u" -> "J/mol"
      [] field_name = "h" -> "J/mol"
      [] field_name = "s" -> "J/mol/K"
      [] OTHER -> "dimensionless"

\* the dimension pint gives a unit
Dimension(u) ==
    CASE u \in {"MPa", "kPa"} -> "pressure"
      [] u = "K" -> "temperature"
      [] u = "m3/mol" -> "molar volume"
      [] u \in {"J/mol", "kJ/mol"} -> "molar energy"
      [] u = "J/mol/K" -> "molar entropy"
      [] OTHER -> "dimensionless"

\* size of a unit in the smallest unit of its dimension that the model uses
UnitFactor(u) ==
    CASE u \in {"MPa", "kJ/mol"} -> 1000
      [] OTHER -> 1

\* mutant: the quantity is relabelled, its magnitude kept
ToUnit_mut(q, u) == Qty(u, q.m)

\* pint's Quantity.to() between units of one dimension: the magnitude is
\* rescaled by the ratio of the units
ToUnit(q, u) ==
    IF q.u = u THEN q ELSE Qty(u, (q.m * UnitFactor(q.u)) \div UnitFactor(u))

\* mutant: no conversion is refused
DimError_mut(name, value) == FALSE

\* Quantity.to() raises DimensionalityError: _dimensionalize, the first
\* statement of __setattr__, does not return
DimError(name, value) ==
    /\ value.k = "qty"
    /\ name \in STATE_VAR_FIELDS
    /\ Dimension(value.u) # Dimension(get_default_unit(name))

\* mutant: the value is stored as given
_dimensionalize_mut(name, value) == value

_dimensionalize(name, value) ==
    IF value.k = "raw" /\ name \in STATE_VAR_FIELDS
    THEN Qty(get_default_unit(name), value.m)
    ELSE IF value.k = "qty" /\ name \in STATE_VAR_FIELDS
         THEN ToUnit(value, get_default_unit(name))
         ELSE value

\* field order of the generated dataclass __init__; a declared parameter
\* field of a subclass comes after the base-class fields
BaseInitOrder == <<"name", "P", "T", "v", "u", "h", "s", "x", "Liquid",
                   "Vapor", "_do_smart_resolve", "_cache">>

(* ----------------------------- state ----------------------------------- *)
VARIABLES
    smart,      \* self._do_smart_resolve
    declared,   \* cls._PARAMETER_FIELDS of the subclass
    strategy,   \* which resolve() the subclass supplies
    val,        \* the attributes T, P, v, s, h, u, x
    other,      \* the attributes name, Liquid, Vapor, a
    cache,      \* self._cache
    pc,         \* "init" (inside __init__), "caller", "resolve" (inside
                \* resolve()), "aborted" (__init__ raised)
    ipos,       \* next field of __init__; Len+1: __post_init__; 0: constructed
    depth,      \* number of resolve() frames on the call stack
    written,    \* names assigned so far by the resolve() in progress
    cyc,        \* resolve invocations since the last invalidation: 0, 1, 2 = more
    nargs,      \* state-variable keywords supplied to the constructor
    chain,      \* <<input, number>> reassignments in a row since a complete state
    lastOp,     \* the top-level operation performed most recently
    s1,         \* the attributes T, P, v, s, h, u, x of a second object ...
    s2,         \* ... and of a third, the operands of delta
    d12,        \* what s1.delta(s2) gave, None before the call
    d21,        \* what s2.delta(s1) gave, None before the call
    heap,       \* the dict objects StateReporter instances refer to
    props,      \* self.properties of each StateReporter: the dict it refers to
    added,      \* the names added through each StateReporter
    T1,         \* the arguments of a call DeltaH_IG(T1, T2, Cp) ...
    T2,
    Cp,
    dH          \* ... and what the call gave, None before the call

\* the variables of the operands of delta and of the reporters
aux == <<s1, s2, d12, d21, heap, props, added, T1, T2, Cp, dH>>

\* the variables of the ThermodynamicState object
mainvars == <<smart, declared, strategy, val, other, cache, pc, ipos, depth,
              written, cyc, nargs, chain, lastOp>>

vars == <<mainvars, aux>>

FullCache ==
    [input_vars_specified |-> <<>>,
     parameters_specified |-> <<>>,
     is_specified |-> FALSE,
     is_parameterized |-> FALSE,
     is_calculating |-> FALSE,
     is_complete |-> FALSE,
     calculated_vars |-> {},
     full |-> TRUE]

\* the minimal cache {} of manual mode, read through .get(key, default)
MinimalCache ==
    [input_vars_specified |-> <<>>,
     parameters_specified |-> <<>>,
     is_specified |-> FALSE,
     is_parameterized |-> FALSE,
     is_calculating |-> FALSE,
     is_complete |-> FALSE,
     calculated_vars |-> {},
     full |-> FALSE]

InitOrder == IF ParamName \in declared
             THEN Append(BaseInitOrder, ParamName)
             ELSE BaseInitOrder

(* ------------------- the attribute-write protocol ---------------------- *)
\* The operators below take and return the object's fields as a record
\* [cache, val, other, post, inv]: post says that _smart_setattr_ went on to
\* call _smart_post_init, inv that _invalidate ran.

\* mutant: the vapor fraction is not blanked
_blank_computed_state_vars_mut(r) ==
    [r EXCEPT
       !.val = [n \in STATE_VAR_FIELDS |->
                  IF n \notin SeqRange(r.cache.input_vars_specified) /\ n # "x"
                  THEN NoneV ELSE r.val[n]],
       !.cache.is_complete = FALSE]

_blank_computed_state_vars(r) ==
    [r EXCEPT
       !.val = [n \in STATE_VAR_FIELDS |->
                  IF n \notin SeqRange(r.cache.input_vars_specified)
                  THEN NoneV ELSE r.val[n]],
       !.cache.is_complete = FALSE]

_invalidate(r) ==
    _blank_computed_state_vars(
       [r EXCEPT !.cache.is_complete = FALSE,
                 !.cache.calculated_vars = {},
                 !.inv = TRUE])

\* mutant: only the six ordered fields are input variables
_is_input_var_mut(name) == name \in SeqRange(STATE_VAR_ORDERED_FIELDS)

_is_input_var(name) == name \in STATE_VAR_FIELDS

_is_parameter(name) == name \in declared

\* mutant: one input is taken for a full specification
_is_self_specified_mut(c) == Len(c.input_vars_specified) >= 1

_is_self_specified(c) == Len(c.input_vars_specified) = 2

\* mutant: the record of the parameters set is not consulted
_is_self_parameterized_mut(c) == TRUE

_is_self_parameterized(c) ==
    IF Cardinality(declared) = 0 THEN TRUE
    ELSE \A param \in declared : param \in SeqRange(c.parameters_specified)

\* mutant: the length of the list is not checked
InputsAfterSet_mut(current_inputs, name) ==
    IF name \notin SeqRange(current_inputs)
    THEN Append(current_inputs, name)
    ELSE current_inputs

\* lines 359-362: which list of inputs an assignment of name leaves
InputsAfterSet(current_inputs, name) ==
    IF Len(current_inputs) < 2 /\ name \notin SeqRange(current_inputs)
    THEN Append(current_inputs, name)
    ELSE current_inputs

\* mutant: overwriting a recorded input does not invalidate
_set_state_var_mut(r, name, value) ==
    LET current_inputs == InputsAfterSet(r.cache.input_vars_specified, name)
        r1 == [r EXCEPT !.val[name] = value,
                        !.cache.input_vars_specified = current_inputs]
    IN  IF name \in SeqRange(current_inputs)
           /\ name \notin SeqRange(r.cache.input_vars_specified)
        THEN _invalidate(r1) ELSE r1

_set_state_var(r, name, value) ==
    LET current_inputs == InputsAfterSet(r.cache.input_vars_specified, name)
        r1 == [r EXCEPT !.val[name] = value,
                        !.cache.input_vars_specified = current_inputs]
    IN  IF name \in SeqRange(current_inputs) THEN _invalidate(r1) ELSE r1

\* mutant: a new parameter value does not invalidate the state
_set_parameter_mut(r, name, value) ==
    LET r1 == [r EXCEPT !.other[name] = value]
    IN  IF value.k # "none" /\ name \notin SeqRange(r1.cache.parameters_specified)
        THEN [r1 EXCEPT !.cache.parameters_specified = Append(@, name)]
        ELSE r1

_set_parameter(r, name, value) ==
    LET r1 == [r EXCEPT !.other[name] = value]
    IN  IF value.k # "none"
        THEN LET r2 == _invalidate(r1)
             IN  IF name \notin SeqRange(r2.cache.parameters_specified)
                 THEN [r2 EXCEPT !.cache.parameters_specified = Append(@, name)]
                 ELSE r2
        ELSE r1

\* mutant: storing the attribute invalidates the state
StoreOther_mut(r, name, value) ==
    IF name = "_cache" THEN [r EXCEPT !.cache = MinimalCache]
    ELSE IF name = "_do_smart_resolve" THEN r
    ELSE _invalidate([r EXCEPT !.other[name] = value])

\* object.__setattr__ of an attribute that is not a state variable.  __init__
\* stores into _do_smart_resolve the value __new__ already stored, and (in
\* manual mode only, see is_none_or_empty) replaces _cache by a fresh {}.
StoreOther(r, name, value) ==
    IF name = "_cache" THEN [r EXCEPT !.cache = MinimalCache]
    ELSE IF name = "_do_smart_resolve" THEN r
    ELSE [r EXCEPT !.other[name] = value]

\* mutant: an empty container is not discarded
_smart_setattr__mut(r, name, value) ==
    IF value.k = "none" THEN r
    ELSE IF ~(_is_input_var(name) \/ _is_parameter(name))
    THEN StoreOther(r, name, value)
    ELSE LET r1 == IF _is_parameter(name)
                   THEN _set_parameter(r, name, value)
                   ELSE _set_state_var(r, name, value)
         IN  [r1 EXCEPT !.cache.is_specified = _is_self_specified(r1.cache),
                        !.cache.is_parameterized = _is_self_parameterized(r1.cache),
                        !.post = TRUE]

\* _smart_setattr_ up to, but not including, its call of _smart_post_init
_smart_setattr_(r, name, value) ==
    IF is_none_or_empty(value) THEN r
    ELSE IF ~(_is_input_var(name) \/ _is_parameter(name))
    THEN StoreOther(r, name, value)
    ELSE LET r1 == IF _is_parameter(name)
                   THEN _set_parameter(r, name, value)
                   ELSE _set_state_var(r, name, value)
         IN  [r1 EXCEPT !.cache.is_specified = _is_self_specified(r1.cache),
                        !.cache.is_parameterized = _is_self_parameterized(r1.cache),
                        !.post = TRUE]

\* mutant: manual mode discards None and empty values as tracked mode does
SetAttrRec_mut(r, name, value) ==
    LET v == _dimensionalize(name, value)
    IN  IF smart THEN _smart_setattr_(r, name, v)
        ELSE IF is_none_or_empty(v) THEN r
        ELSE IF name \in STATE_VAR_FIELDS THEN [r EXCEPT !.val[name] = v]
        ELSE StoreOther(r, name, v)

\* __setattr__ up to the call of _smart_post_init; in manual mode a plain
\* object.__setattr__ of the normalised value
SetAttrRec(r, name, value) ==
    LET v == _dimensionalize(name, value)
    IN  IF smart THEN _smart_setattr_(r, name, v)
        ELSE IF name \in STATE_VAR_FIELDS THEN [r EXCEPT !.val[name] = v]
        ELSE StoreOther(r, name, v)

Here == [cache |-> cache, val |-> val, other |-> other,
         post |-> FALSE, inv |-> FALSE]

\* the condition under which smart_resolve calls resolve()
WillResolve(c) ==
    _is_self_specified(c) /\ _is_self_parameterized(c) /\ ~c.is_complete

\* mutant: the calculating flag is not consulted
PostInitRuns_mut(c) == TRUE

\* the guard of _smart_post_init
PostInitRuns(c) == ~c.is_calculating

\* _scalarize: a state variable holding a bare np.float64 is re-assigned as
\* a Python float; every other value is left alone
_scalarize(vv) ==
    [p \in STATE_VAR_FIELDS |->
        IF vv[p].k = "f64" THEN _dimensionalize(p, Raw(vv[p].m)) ELSE vv[p]]

\* the attribute called name, as getattr(self, name) reads it
Attr(name) ==
    IF name \in STATE_VAR_FIELDS THEN val[name]
    ELSE IF name \in OtherNames THEN other[name]
    ELSE NoneV

\* a record of a top-level operation, with what held when it began
Op(op, name, value, who) ==
    [op |-> op, name |-> name, vk |-> value.k, who |-> who,
     wasComplete |-> op = "setattr" /\ cache.is_complete,
     wasInput |-> name \in SeqRange(cache.input_vars_specified),
     hadValue |-> Attr(name).k # "none"]

NoOp == [op |-> "new", name |-> "", vk |-> "none", who |-> "init",
         wasComplete |-> FALSE, wasInput |-> FALSE, hadValue |-> FALSE]

\* no delta has been computed
DeltaIdle ==
    /\ s1 = [n \in STATE_VAR_FIELDS |-> NoneV]
    /\ s2 = [n \in STATE_VAR_FIELDS |-> NoneV]
    /\ d12 = NoneV
    /\ d21 = NoneV

\* the dict bound to the default of __init__'s parameter properties exists,
\* empty, from the moment the class is defined; no StateReporter is
\* constructed yet ("arg1", "arg2": the dicts a caller may create and pass)
ReporterIdle ==
    /\ heap = [d \in {"default", "arg1", "arg2"} |-> <<>>]
    /\ props = [r \in 1..2 |-> "none"]
    /\ added = [r \in 1..2 |-> {}]

\* no enthalpy change has been asked for
ThermalsIdle ==
    /\ T1 = NoneV
    /\ T2 = NoneV
    /\ Cp = NoneV
    /\ dH = NoneV

\* the ThermodynamicState when __new__ has returned
MainInit ==
    /\ smart \in BOOLEAN
    /\ declared \in {{}, {ParamName}}
    /\ strategy \in IF smart THEN {"ideal", "free"} ELSE {"ideal"}
    /\ val = [n \in STATE_VAR_FIELDS |-> NoneV]
    /\ other = [n \in OtherNames |-> NoneV]
    /\ cache = IF smart THEN FullCache ELSE MinimalCache
    /\ pc = "init"
    /\ ipos = 1
    /\ depth = 0
    /\ written = {}
    /\ cyc = 0
    /\ nargs = 0
    /\ chain = {}
    /\ lastOp = NoOp

\* state when __new__ has returned and __init__ is about to assign fields
Init == MainInit /\ DeltaIdle /\ ReporterIdle /\ ThermalsIdle
(* ------------------------- the subclass's resolve ---------------------- *)
\* magnitude of a stored quantity or raw number
Mag(value) == IF value.k \in {"qty", "raw"} THEN value.m ELSE 0

\* magnitude of the i-th input; a name in the list that is no attribute of
\* the object counts as None
InputMag(i) == Mag(Attr(cache.input_vars_specified[i]))

ParamMag == IF ParamName \in declared THEN Mag(other[ParamName]) ELSE 0

\* The "ideal" resolve is a deterministic routine in the style of the
\* ideal-gas scenario: it assigns every primary variable that is not an
\* input a number computed from the two inputs and the parameter, assigns x
\* when the two inputs describe a saturated state, and reports success.
CalcOf(a, b, p) == ((a + b + p) % MaxVal) + 1

Calc == CalcOf(InputMag(1), InputMag(2), ParamMag)

SaturatedAt(a, b) == a = b

Saturated == SaturatedAt(InputMag(1), InputMag(2))

IdealPlan ==
    SelectSeq(STATE_VAR_ORDERED_FIELDS,
              LAMBDA n : n \notin SeqRange(cache.input_vars_specified))
    \o (IF Saturated /\ "x" \notin SeqRange(cache.input_vars_specified)
        THEN <<"x">> ELSE <<>>)

\* the assignments of the plan that the resolve() in progress has yet to make
IdealTodo == SelectSeq(IdealPlan, LAMBDA n : n \notin written)

\* The "free" resolve is an arbitrary routine: it assigns any of these
\* names (an input, computed variables, the parameter), in any order and any
\* number of times, and reports success or failure.
FreeNames == {"T", "x", ParamName}

(* ------------------------------ ghosts --------------------------------- *)
CycAfter(r, go) ==
    LET base == IF r.inv /\ depth = 0 THEN 0 ELSE cyc
    IN  IF go /\ base < 2 THEN base + 1 ELSE base

(* ----------------------------- actions --------------------------------- *)
\* The tail of a handler: r is the object as _smart_setattr_ / __post_init__
\* left it before _smart_post_init; _smart_post_init then assigns
\* _is_complete the result of smart_resolve(), which calls resolve() when
\* WillResolve and returns False otherwise.  cont is where control goes when
\* resolve() is not called, w the names written by the resolve() in progress.
Finish(r, cont, w) ==
    LET runs == r.post /\ PostInitRuns(r.cache)
        go == runs /\ WillResolve(r.cache)
    IN  /\ cache' = IF go THEN [r.cache EXCEPT !.is_calculating = TRUE]
                    ELSE IF runs THEN [r.cache EXCEPT !.is_complete = FALSE]
                    ELSE r.cache
        /\ val' = r.val
        /\ other' = r.other
        /\ pc' = IF go THEN "resolve" ELSE cont
        /\ depth' = IF go THEN depth + 1 ELSE depth
        /\ written' = IF go THEN {} ELSE w
        /\ cyc' = CycAfter(r, go)

RawValues == {Raw(m) : m \in 1..MaxVal}

\* the state variables that constructor keywords and caller assignments name;
\* the others are assigned by resolve() only
AssignedNames == {"T", "P", "x"}

\* the names swap_input_vars is called with: state variables, as its
\* docstring requires ("swap one of the state vars into the input var set")
SwapNames == {"T", "v"}

\* keyword values __init__ may receive for a field (x and the parameter are
\* given one number, T and P every number up to MaxVal)
KwargValues(f) ==
    IF f = "x" THEN {NoneV, Raw(1)}
    ELSE IF f \in AssignedNames THEN {NoneV} \cup RawValues
    ELSE IF f = ParamName THEN {NoneV, Raw(1)}
    ELSE IF f = "name" \/ f = "_do_smart_resolve" THEN {Obj(1)}
    ELSE IF f = "_cache" THEN {EmptyV}
    ELSE {NoneV}

\* __init__ assigns its next field
InitField ==
    /\ pc = "init"
    /\ ipos \in 1..Len(InitOrder)
    /\ \E value \in KwargValues(InitOrder[ipos]) :
         LET f == InitOrder[ipos] IN
         /\ Finish(SetAttrRec(Here, f, value), "init", {})
         /\ nargs' = IF f \in STATE_VAR_FIELDS /\ value.k # "none"
                     THEN nargs + 1 ELSE nargs
         /\ lastOp' = Op("setattr", f, value, "init")
    /\ ipos' = ipos + 1
    /\ UNCHANGED <<smart, declared, strategy, chain, aux>>

\* __init__ calls __post_init__ and returns
PostInit ==
    /\ pc = "init"
    /\ ipos = Len(InitOrder) + 1
    /\ Finish([Here EXCEPT !.post = smart], "caller", {})
    /\ ipos' = 0
    /\ lastOp' = Op("post_init", "", NoneV, "init")
    /\ UNCHANGED <<smart, declared, strategy, nargs, chain, aux>>

\* names and values the caller assigns
CallerNames == AssignedNames \cup {ParamName, "name"}

\* quantities the caller assigns to P: a pressure in kPa and a temperature
QtyValues(n) ==
    IF n = "P" THEN {Qty("kPa", 1000), Qty("K", 1)} ELSE {}

CallerValues(n) ==
    IF n = "name" THEN {NoneV, Obj(1)}
    ELSE IF n \in {ParamName, "x"} THEN {NoneV, EmptyV, Raw(1)}
    ELSE {NoneV, EmptyV} \cup RawValues

\* the caller executes  obj.name = value
CallerSetattr(n, value) ==
    /\ pc = "caller"
    /\ IF DimError(n, value)
       THEN /\ lastOp' = Op("setattr_error", n, value, "caller")
            /\ UNCHANGED <<cache, val, other, pc, depth, written, cyc>>
       ELSE /\ Finish(SetAttrRec(Here, n, value), "caller", {})
            /\ lastOp' = Op("setattr", n, value, "caller")
    /\ chain' = IF /\ smart /\ strategy = "ideal"
                   /\ n \in SeqRange(cache.input_vars_specified)
                   /\ value.k = "raw"
                   /\ (chain # {} \/ cache.is_complete)
                THEN {e \in chain : e[1] # n} \cup {<<n, value.m>>}
                ELSE {}
    /\ nargs' = 0
    /\ UNCHANGED <<smart, declared, strategy, ipos, aux>>

\* mutant: the replacement is not required to be a non-input
SwapAllowed_mut(inputs, input_var, state_var) ==
    input_var \in SeqRange(inputs)

\* the condition of swap_input_vars; ValueError is raised when it is false
SwapAllowed(inputs, input_var, state_var) ==
    input_var \in SeqRange(inputs) /\ state_var \notin SeqRange(inputs)

\* mutant: the replaced variable stays in the list
SwappedInputs_mut(inputs, input_var, state_var) ==
    Append(inputs, state_var)

\* inputs.remove(input_var); inputs.append(state_var)
SwappedInputs(inputs, input_var, state_var) ==
    Append(SelectSeq(inputs, LAMBDA e : e # input_var), state_var)

\* the caller executes  obj.swap_input_vars(input_var, state_var)
swap_input_vars(input_var, state_var) ==
    LET inputs == cache.input_vars_specified
        ok == SwapAllowed(inputs, input_var, state_var)
    IN  /\ pc = "caller"
        /\ cache' = IF ok
                    THEN [cache EXCEPT !.input_vars_specified =
                           SwappedInputs(inputs, input_var, state_var)]
                    ELSE cache
        /\ lastOp' = Op(IF ok THEN "swap" ELSE "swap_error", "",
                        NoneV, "caller")
        /\ chain' = {}
        /\ nargs' = 0
        /\ UNCHANGED <<smart, declared, strategy, val, other, pc, ipos, depth,
                       written, cyc, aux>>

\* the caller executes  obj.smart_resolve()
smart_resolve ==
    /\ pc = "caller"
    /\ LET go == WillResolve(cache) IN
       /\ cache' = IF go /\ smart THEN [cache EXCEPT !.is_calculating = TRUE]
                   ELSE cache
       /\ pc' = IF go THEN "resolve" ELSE "caller"
       /\ depth' = IF go THEN depth + 1 ELSE depth
       /\ written' = {}
       /\ cyc' = CycAfter([inv |-> FALSE], go)
    /\ lastOp' = Op("smart_resolve", "", NoneV, "caller")
    /\ chain' = {}
    /\ nargs' = 0
    /\ UNCHANGED <<smart, declared, strategy, val, other, ipos, aux>>

\* resolve() executes  self.n = value
ResolveWrite(n, value) ==
    /\ pc = "resolve"
    /\ value = Raw(Calc)
    /\ \/ strategy = "free" /\ n \in FreeNames \ written
       \/ strategy = "ideal" /\ IdealTodo # <<>> /\ n = Head(IdealTodo)
    /\ Finish(SetAttrRec(Here, n, value), "resolve", written \cup {n})
    /\ UNCHANGED <<smart, declared, strategy, ipos, nargs, chain, lastOp, aux>>

\* mutant: the state is recorded as complete whatever resolve() returned
ReturnCache_mut(c, resolved) ==
    [c EXCEPT !.is_calculating = IF smart THEN FALSE ELSE @,
              !.is_complete = TRUE]

\* the cache when smart_resolve and _smart_post_init have recorded the
\* result of resolve()
ReturnCache(c, resolved) ==
    [c EXCEPT !.is_calculating = IF smart THEN FALSE ELSE @,
              !.is_complete = resolved]

\* resolve() returns resolved; smart_resolve clears the calculating flag,
\* scalarizes and records the result, which _smart_post_init records again
ResolveReturn(resolved) ==
    /\ pc = "resolve"
    /\ \/ strategy = "free"
       \/ strategy = "ideal" /\ IdealTodo = <<>> /\ resolved
    /\ cache' = ReturnCache(cache, resolved)
    /\ val' = _scalarize(val)
    /\ depth' = depth - 1
    /\ pc' = IF depth > 1 THEN "resolve"
             ELSE IF ipos # 0 THEN "init" ELSE "caller"
    /\ written' = IF depth > 1 THEN written ELSE {}
    /\ UNCHANGED <<smart, declared, strategy, other, ipos, cyc, nargs,
                   chain, lastOp, aux>>

\* resolve() raises: the exception leaves smart_resolve at its call of
\* resolve(), then _smart_post_init and __setattr__, and reaches the caller;
\* raised inside the constructor it leaves no object behind
ResolveRaise ==
    /\ pc = "resolve"
    /\ strategy = "free"
    /\ pc' = IF lastOp.who = "init" THEN "aborted" ELSE "caller"
    /\ depth' = 0
    /\ written' = {}
    /\ UNCHANGED <<smart, declared, strategy, val, other, cache, ipos, cyc,
                   nargs, chain, lastOp, aux>>

Next ==
    \/ InitField
    \/ PostInit
    \/ \E n \in CallerNames : \E value \in CallerValues(n) :
          CallerSetattr(n, value)
    \/ \E a \in SwapNames : \E b \in SwapNames :
          swap_input_vars(a, b)
    \/ smart_resolve
    \/ \E n \in STATE_VAR_FIELDS \cup {ParamName} : \E value \in RawValues :
          ResolveWrite(n, value)
    \/ \E resolved \in BOOLEAN : ResolveReturn(resolved)

Spec == Init /\ [][Next]_vars

\* The same object in a wider environment: the caller also assigns
\* quantities that carry a unit, and the subclass's resolve() may raise.  To
\* keep the state space of this specification within reach, the tracked
\* object has the arbitrary resolve() and the caller swaps no inputs.
InitExt == Init /\ (smart => strategy = "free")

NextExt ==
    \/ InitField
    \/ PostInit
    \/ \E n \in CallerNames : \E value \in CallerValues(n) \cup QtyValues(n) :
          CallerSetattr(n, value)
    \/ smart_resolve
    \/ \E n \in STATE_VAR_FIELDS \cup {ParamName} : \E value \in RawValues :
          ResolveWrite(n, value)
    \/ \E resolved \in BOOLEAN : ResolveReturn(resolved)
    \/ ResolveRaise

SpecExt == InitExt /\ [][NextExt]_vars
\* The tracked object with a caller that also passes swap_input_vars a
\* name that is not a state variable: the method takes any two strings.
WideSwapNames == SwapNames \cup {"Pv"}

InitSwap == Init /\ smart /\ strategy = "ideal"

NextSwap ==
    \/ InitField
    \/ PostInit
    \/ \E n \in CallerNames : \E value \in CallerValues(n) :
          CallerSetattr(n, value)
    \/ \E a \in WideSwapNames : \E b \in WideSwapNames :
          swap_input_vars(a, b)
    \/ smart_resolve
    \/ \E n \in STATE_VAR_FIELDS \cup {ParamName} : \E value \in RawValues :
          ResolveWrite(n, value)
    \/ \E resolved \in BOOLEAN : ResolveReturn(resolved)

SpecSwap == InitSwap /\ [][NextSwap]_vars

(* ----------------------- cached properties ----------------------------- *)
\* the properties a subclass decorates with cached_property
PropNames == {"Pv", "Z"}

\* _calc_<key>(): the subclass's calculator, a function of the attributes
Calculator(key) ==
    IF key = "Pv" THEN Raw(Mag(val["P"]) * Mag(val["v"]))
    ELSE Raw(Mag(val["T"]) + Mag(val["x"]))

\* the dict _cache['_calculated_vars'] is kept as its set of <<key, value>>
CachedKeys(c) == {e[1] : e \in c.calculated_vars}

CachedValue(c, key) == (CHOOSE e \in c.calculated_vars : e[1] = key)[2]

\* mutant: the calculator is called and its value stored on every read
_cache_property_update_mut(c, key) ==
    IF ~smart THEN [ret |-> FALSE, cache |-> c, called |-> FALSE]
    ELSE [ret |-> TRUE,
          cache |-> [c EXCEPT !.calculated_vars =
                       {e \in @ : e[1] # key} \cup {<<key, Calculator(key)>>}],
          called |-> TRUE]

\* _cache_property_update(key, calculator): what it returns, the cache it
\* leaves, and whether it called the calculator
_cache_property_update(c, key) ==
    IF ~smart THEN [ret |-> FALSE, cache |-> c, called |-> FALSE]
    ELSE IF key \notin CachedKeys(c)
    THEN [ret |-> TRUE,
          cache |-> [c EXCEPT !.calculated_vars =
                       @ \cup {<<key, Calculator(key)>>}],
          called |-> TRUE]
    ELSE [ret |-> TRUE, cache |-> c, called |-> FALSE]

\* the getter that cached_property builds: the value read, the cache left,
\* and whether the calculator was called
cached_property(key) ==
    LET upd == IF smart THEN _cache_property_update(cache, key)
               ELSE [ret |-> FALSE, cache |-> cache, called |-> FALSE]
    IN  IF upd.ret
        THEN [value |-> CachedValue(upd.cache, key), cache |-> upd.cache,
              called |-> upd.called]
        ELSE [value |-> Calculator(key), cache |-> upd.cache,
              called |-> TRUE]

\* the caller reads  obj.key
ReadProperty(key) ==
    LET rd == cached_property(key)
    IN  /\ pc = "caller"
        /\ cache' = rd.cache
        /\ lastOp' = Op(IF rd.called THEN "read_calc" ELSE "read_cached",
                        key, rd.value, "caller")
        /\ chain' = {}
        /\ nargs' = 0
        /\ UNCHANGED <<smart, declared, strategy, val, other, pc, ipos, depth,
                       written, cyc, aux>>

\* The object of a subclass with cached properties and the deterministic
\* resolve(); the caller assigns and reads.
InitProps == Init /\ strategy = "ideal"

NextProps ==
    \/ InitField
    \/ PostInit
    \/ \E n \in CallerNames : \E value \in CallerValues(n) :
          CallerSetattr(n, value)
    \/ smart_resolve
    \/ \E n \in STATE_VAR_FIELDS \cup {ParamName} : \E value \in RawValues :
          ResolveWrite(n, value)
    \/ \E resolved \in BOOLEAN : ResolveReturn(resolved)
    \/ \E key \in PropNames : ReadProperty(key)

SpecProps == InitProps /\ [][NextProps]_vars

(* ------------------------------ delta ---------------------------------- *)
\* the state variables that differ among the operands of delta
DeltaFields == {"T", "P", "v"}

\* attribute maps of ThermodynamicState objects: a quantity in the default
\* unit or None in each of DeltaFields, None elsewhere
DeltaStates ==
    {[n \in STATE_VAR_FIELDS |->
        IF n \in DeltaFields /\ f[n] > 0
        THEN Qty(get_default_unit(n), f[n]) ELSE NoneV] :
     f \in [DeltaFields -> 0..MaxVal]}

\* Quantity.__sub__ of two quantities in one unit
Sub(q2, q1) == Qty(q2.u, q2.m - q1.m)

\* obj.name on a ThermodynamicState whose state variables are obj: the class
\* defines the seven state-variable fields; it defines no attribute Pv, so
\* that lookup raises AttributeError
GetAttr(obj, name) ==
    IF name \in STATE_VAR_FIELDS THEN [k |-> "ok", v |-> obj[name]]
    ELSE [k |-> "raise", exc |-> "AttributeError"]

\* delta_props when the loop of delta has ended
DeltaEntries(self, oth) ==
    [p \in {q \in STATE_VAR_FIELDS : self[q] # NoneV /\ oth[q] # NoneV}
       |-> Sub(oth[p], self[p])]

\* self.delta(other)
delta(self, oth) ==
    LET delta_props == DeltaEntries(self, oth)
        pv2 == GetAttr(oth, "Pv")
        pv1 == GetAttr(self, "Pv")
    IN  IF pv2.k = "raise" THEN pv2
        ELSE IF pv1.k = "raise" THEN pv1
        ELSE [k |-> "dict",
              d |-> [p \in DOMAIN delta_props \cup {"Pv"} |->
                       IF p = "Pv" THEN Sub(pv2.v, pv1.v)
                       ELSE delta_props[p]]]

InitDelta ==
    /\ MainInit
    /\ ~smart
    /\ declared = {}
    /\ s1 \in DeltaStates
    /\ s2 \in DeltaStates
    /\ d12 = NoneV
    /\ d21 = NoneV
    /\ ReporterIdle
    /\ ThermalsIdle

\* the caller evaluates  s1.delta(s2)
CallDelta12 ==
    /\ d12 = NoneV
    /\ d12' = delta(s1, s2)
    /\ UNCHANGED <<mainvars, s1, s2, d21, heap, props, added, T1, T2, Cp, dH>>

\* the caller evaluates  s2.delta(s1)
CallDelta21 ==
    /\ d21 = NoneV
    /\ d21' = delta(s2, s1)
    /\ UNCHANGED <<mainvars, s1, s2, d12, heap, props, added, T1, T2, Cp, dH>>

NextDelta == CallDelta12 \/ CallDelta21

SpecDelta == InitDelta /\ [][NextDelta]_vars

(* --------------------------- StateReporter ----------------------------- *)
\* values one property of a reporter may collect
MaxEntries == 2

\* property names given to a reporter, and the length of each
ReporterNames == {"T", "Pv"}

NameLen(name) == IF name = "Pv" THEN 2 ELSE 1

\* A dict is the sequence of its items in insertion order; an item's entry
\* is the tuple (value, fstring) - vals of length 1, list FALSE - or a list
\* of such tuples.  fstring is always the default None.
Keys(dict) == {dict[i].name : i \in 1..Len(dict)}

IndexOf(dict, name) == CHOOSE i \in 1..Len(dict) : dict[i].name = name

\* dict[name] = entry
DictSet(dict, name, entry) ==
    IF name \in Keys(dict)
    THEN [dict EXCEPT ![IndexOf(dict, name)].entry = entry]
    ELSE Append(dict, [name |-> name, entry |-> entry])

\* the dict a caller creates and passes to the constructor of reporter r
ArgDict(r) == IF r = 1 THEN "arg1" ELSE "arg2"

\* r = StateReporter()  or, given,  r = StateReporter({}):
\* self.properties = properties
StateReporterInit(r, given) ==
    /\ props[r] = "none"
    /\ props' = [props EXCEPT ![r] = IF given THEN ArgDict(r) ELSE "default"]
    /\ UNCHANGED <<mainvars, s1, s2, d12, d21, heap, added, T1, T2, Cp, dH>>

\* r.add_property(name, value)
add_property(r, name, value) ==
    /\ props[r] # "none"
    /\ heap' = [heap EXCEPT ![props[r]] =
                  DictSet(@, name, [list |-> FALSE, vals |-> <<value>>])]
    /\ added' = [added EXCEPT ![r] = @ \cup {name}]
    /\ UNCHANGED <<mainvars, s1, s2, d12, d21, props, T1, T2, Cp, dH>>

\* r.add_value_to_property(name, value)
add_value_to_property(r, name, value) ==
    /\ props[r] # "none"
    /\ LET dict == heap[props[r]] IN
       IF name \in Keys(dict)
       THEN LET current_entry == dict[IndexOf(dict, name)].entry IN
            /\ Len(current_entry.vals) < MaxEntries
            /\ heap' = [heap EXCEPT ![props[r]] =
                          DictSet(dict, name,
                                  [list |-> TRUE,
                                   vals |-> Append(current_entry.vals, value)])]
       ELSE heap' = [heap EXCEPT ![props[r]] =
                       DictSet(dict, name, [list |-> FALSE, vals |-> <<value>>])]
    /\ added' = [added EXCEPT ![r] = @ \cup {name}]
    /\ UNCHANGED <<mainvars, s1, s2, d12, d21, props, T1, T2, Cp, dH>>

\* r.report(): one line per property, the name padded to the longest name,
\* then " = value" for each of its values; "" when there is no property
report(r) ==
    LET dict == heap[props[r]]
        longest == CHOOSE w \in {NameLen(n) : n \in Keys(dict)} :
                      \A n \in Keys(dict) : NameLen(n) <= w
    IN  IF dict = <<>> THEN <<>>
        ELSE [i \in 1..Len(dict) |->
                [name |-> dict[i].name,
                 pad |-> longest - NameLen(dict[i].name),
                 vals |-> dict[i].entry.vals]]

InitReporter ==
    /\ MainInit
    /\ ~smart
    /\ declared = {}
    /\ DeltaIdle
    /\ ReporterIdle
    /\ ThermalsIdle

NextReporter ==
    \/ \E r \in 1..2 : \E given \in BOOLEAN : StateReporterInit(r, given)
    \/ \E r \in 1..2 : \E name \in ReporterNames : \E value \in 1..MaxVal :
          add_property(r, name, value)
    \/ \E r \in 1..2 : \E name \in ReporterNames : \E value \in 1..MaxVal :
          add_value_to_property(r, name, value)

SpecReporter == InitReporter /\ [][NextReporter]_vars

(* ------------------------------ thermals ------------------------------- *)
\* temperatures (K) and polynomial coefficients a call may be given
MaxT == 3
MaxCoef == 1

\* a heat capacity given as a number, as a list and as a dict of the
\* coefficients a, b, c, d; None is the default of the parameter
CpScalars == {Raw(m) : m \in 0..MaxVal}
CpCoefs == [{"a", "b", "c", "d"} -> 0..MaxCoef]
CpValues ==
    CpScalars
    \cup {[k |-> "list", c |-> f] : f \in CpCoefs}
    \cup {[k |-> "dict", c |-> f] : f \in CpCoefs}
    \cup {NoneV}

\* a temperature given as a number and as a pint Quantity
TempValues == {Raw(m) : m \in 0..MaxT} \cup {Qty("K", m) : m \in 0..MaxT}

\* mutant: a number is taken for the first two coefficients
unpackCp_mut(C) ==
    IF C.k = "raw" THEN [k |-> "ok", a |-> C.m, b |-> C.m, c |-> 0, d |-> 0]
    ELSE IF C.k = "dict"
    THEN [k |-> "ok", a |-> C.c["a"], b |-> C.c["b"], c |-> C.c["c"], d |-> C.c["d"]]
    ELSE IF C.k = "list"
    THEN [k |-> "ok", a |-> C.c["a"], b |-> C.c["b"], c |-> C.c["c"], d |-> C.c["d"]]
    ELSE [k |-> "raise", exc |-> "TypeError"]

\* unpackCp: the coefficients of Cp = a + b*T + c*T^2 + d*T^3
unpackCp(C) ==
    IF C.k = "raw" THEN [k |-> "ok", a |-> C.m, b |-> 0, c |-> 0, d |-> 0]
    ELSE IF C.k = "dict"
    THEN [k |-> "ok", a |-> C.c["a"], b |-> C.c["b"], c |-> C.c["c"], d |-> C.c["d"]]
    ELSE IF C.k = "list"
    THEN [k |-> "ok", a |-> C.c["a"], b |-> C.c["b"], c |-> C.c["c"], d |-> C.c["d"]]
    ELSE [k |-> "raise", exc |-> "TypeError"]

\* Quantity.m_as(u): the magnitude of the quantity expressed in u
m_as(q, u) == ToUnit(q, u).m

\* lines 42-50: the temperature in kelvin, a bare number taken as kelvin
InKelvin(T) == IF T.k = "qty" THEN m_as(T, "K") ELSE T.m

\* DeltaH_IG.  The magnitude is kept in twelfths of a J/mol (field m12), so
\* that b / 2, c / 3 and d / 4 stay within the integers.
DeltaH_IG(Ta, Tb, C) ==
    LET T1_K == InKelvin(Ta)
        T2_K == InKelvin(Tb)
        co == unpackCp(C)
        dt1 == T2_K - T1_K
        dt2 == T2_K * T2_K - T1_K * T1_K
        dt3 == T2_K * T2_K * T2_K - T1_K * T1_K * T1_K
        dt4 == T2_K * T2_K * T2_K * T2_K - T1_K * T1_K * T1_K * T1_K
    IN  IF co.k = "raise" THEN co
        ELSE [k |-> "qty", u |-> "J/mol",
              m12 |-> 12 * co.a * dt1 + 6 * co.b * dt2
                      + 4 * co.c * dt3 + 3 * co.d * dt4]

InitThermals ==
    /\ MainInit
    /\ ~smart
    /\ declared = {}
    /\ DeltaIdle
    /\ ReporterIdle
    /\ T1 \in TempValues
    /\ T2 \in TempValues
    /\ Cp \in CpValues
    /\ dH = NoneV

\* the caller evaluates  DeltaH_IG(T1, T2, Cp)
CallDeltaH ==
    /\ dH = NoneV
    /\ dH' = DeltaH_IG(T1, T2, Cp)
    /\ UNCHANGED <<mainvars, s1, s2, d12, d21, heap, props, added, T1, T2, Cp>>

NextThermals == CallDeltaH

SpecThermals == InitThermals /\ [][NextThermals]_vars

(* ------------------------------ claims --------------------------------- *)
Inputs == SeqRange(cache.input_vars_specified)

\* the constructor has returned and the caller has done nothing yet
JustConstructed == pc = "caller" /\ lastOp.op = "post_init"

\* the last top-level operation was an assignment by the caller
CallerAssigned == lastOp.op = "setattr" /\ lastOp.who = "caller"

\* C1: in tracked mode, a state constructed with exactly two state variables,
\* no declared parameter and a resolve that reports success is complete when
\* the constructor returns, and the variables resolve wrote are populated.
C1_CompleteAfterConstruction ==
    (/\ JustConstructed
     /\ smart
     /\ declared = {}
     /\ strategy = "ideal"
     /\ nargs = 2)
    => /\ cache.is_complete
       /\ \A n \in SeqRange(IdealPlan) : val[n] # NoneV

C3_AtMostTwoInputs ==
    /\ Len(cache.input_vars_specified) <= 2
    /\ Cardinality(Inputs) = Len(cache.input_vars_specified)

\* the caller assigned a number to a third state variable while two inputs
\* were recorded
C3_Witness ==
    /\ smart
    /\ CallerAssigned
    /\ lastOp.name \in STATE_VAR_FIELDS
    /\ lastOp.vk = "raw"
    /\ ~lastOp.wasInput
    /\ lastOp.name \notin Inputs
    /\ val[lastOp.name] # NoneV
    /\ Len(cache.input_vars_specified) = 2

\* C4 as claimed: x is never recorded as an input.
C4_XNeverInput == "x" \notin Inputs

\* C4 as amended: in tracked mode x is tracked like the six primary
\* variables - after x is assigned a number, x is an input unless two other
\* inputs were already recorded.
C4_XTrackedAsInput ==
    (/\ smart
     /\ lastOp.op = "setattr"
     /\ lastOp.name = "x"
     /\ lastOp.vk = "raw")
    => \/ "x" \in Inputs
       \/ Len(cache.input_vars_specified) = 2 /\ ~lastOp.wasInput

\* assigning x completed the pair of inputs and the engine invoked resolve()
C4_Witness ==
    /\ pc = "resolve"
    /\ lastOp.op = "setattr"
    /\ lastOp.name = "x"
    /\ ~lastOp.wasInput
    /\ cache.input_vars_specified[2] = "x"
    /\ written = {}

\* C5: in tracked mode an assignment of None or of an empty container changes
\* no attribute, no entry of the cache and does not invoke resolve().
C5_NoneIsNoOp ==
    [][(/\ pc # "resolve"
        /\ smart
        /\ lastOp'.op = "setattr"
        /\ lastOp'.vk \in {"none", "empty"})
       => /\ UNCHANGED <<val, other, cache, depth, cyc, smart>>
          /\ pc' # "resolve"]_vars

\* the caller assigned None to a state variable of a complete state that
\* held a value
C5_Witness ==
    /\ smart
    /\ CallerAssigned
    /\ lastOp.vk = "none"
    /\ lastOp.name \in STATE_VAR_FIELDS
    /\ lastOp.hadValue
    /\ lastOp.wasComplete
    /\ cache.is_complete
\* a top-level step that assigns None or an empty container
NoneAssignStep ==
    /\ pc # "resolve"
    /\ lastOp'.op = "setattr"
    /\ lastOp'.vk \in {"none", "empty"}

\* C6 as claimed: in either mode an assignment of None (or empty) never
\* clears or overwrites the value of a field.
C6_NoneNeverOverwrites ==
    [][NoneAssignStep => val' = val /\ other' = other]_vars

\* C6 as amended: the rule holds in tracked mode only; in manual mode the
\* assignment is a plain write that stores the None (or empty container) in
\* the named field and leaves the other fields alone.
C6_NoneOverwritesInManualMode ==
    [][NoneAssignStep =>
         IF smart
         THEN val' = val /\ other' = other
         ELSE /\ \A n \in STATE_VAR_FIELDS :
                   val'[n] = IF n = lastOp'.name
                             THEN [k |-> lastOp'.vk] ELSE val[n]
              /\ \A n \in OtherNames :
                   other'[n] = IF n = lastOp'.name
                               THEN [k |-> lastOp'.vk] ELSE other[n]]_vars

\* in manual mode the caller assigned None to a state variable that held a
\* value, and the value is gone
C6_Witness ==
    /\ ~smart
    /\ CallerAssigned
    /\ lastOp.vk = "none"
    /\ lastOp.name \in STATE_VAR_FIELDS
    /\ lastOp.hadValue
    /\ val[lastOp.name] = NoneV

\* the resolve() in progress, or just finished, was triggered by the caller
\* assigning a number to an input of a complete state
ReassignedInput ==
    /\ smart
    /\ CallerAssigned
    /\ lastOp.vk = "raw"
    /\ lastOp.wasInput
    /\ lastOp.wasComplete

\* C7: assigning a number to an input of a complete tracked state blanks
\* every state variable that is not an input (x included) and resets complete
\* before resolve() is invoked again, keeps the input list and the other
\* input's value; during and after that resolve() the only values of
\* non-inputs are the ones it wrote.
C7_ReassignInvalidates ==
    /\ [][(/\ pc = "caller"
           /\ smart
           /\ cache.is_complete
           /\ lastOp'.op = "setattr"
           /\ lastOp'.vk = "raw"
           /\ lastOp'.name \in Inputs)
          => /\ cache'.input_vars_specified = cache.input_vars_specified
             /\ \A m \in Inputs \ {lastOp'.name} : val'[m] = val[m]
             /\ \A m \in STATE_VAR_FIELDS \ Inputs : val'[m] = NoneV
             /\ ~cache'.is_complete
             /\ pc' = "resolve"]_vars
    /\ [][(pc = "resolve" /\ pc' # "resolve") => val' = val]_vars
    /\ [](ReassignedInput /\ pc = "resolve" =>
            \A n \in STATE_VAR_FIELDS \ Inputs : val[n] # NoneV => n \in written)

\* the re-resolution after such a reassignment has written a non-input
C7_Witness ==
    /\ ReassignedInput
    /\ pc = "resolve"
    /\ \E n \in STATE_VAR_FIELDS \ Inputs : val[n] # NoneV /\ n \in written

\* the numbers the chain of reassignments gave the two inputs
ChainMag(i) ==
    LET n == cache.input_vars_specified[i]
    IN  (CHOOSE e \in chain : e[1] = n)[2]

\* what the ideal resolve() leaves in field n when run from blank on the
\* inputs the chain assigned
Fresh(n) ==
    LET a == ChainMag(1)
        b == ChainMag(2)
    IN  IF n \in Inputs
        THEN Qty(get_default_unit(n), (CHOOSE e \in chain : e[1] = n)[2])
        ELSE IF n # "x" \/ SaturatedAt(a, b)
        THEN Qty(get_default_unit(n), CalcOf(a, b, ParamMag))
        ELSE NoneV

\* both inputs of a once complete state have been reassigned in a row
BothReassigned ==
    /\ smart
    /\ strategy = "ideal"
    /\ pc = "caller"
    /\ Len(cache.input_vars_specified) = 2
    /\ {e[1] : e \in chain} = Inputs

\* C8: with the deterministic resolve, once both inputs of a complete state
\* have been reassigned, every state variable holds what a fresh resolution
\* from the two new inputs gives.
C8_ReassignBothIsFresh ==
    BothReassigned => \A n \in STATE_VAR_FIELDS : val[n] = Fresh(n)

\* both inputs were reassigned, to a pair that is not saturated
C8_Witness ==
    /\ BothReassigned
    /\ ~SaturatedAt(ChainMag(1), ChainMag(2))
    /\ cache.is_complete

\* C9: resolve() is invoked at most once between two invalidations - stated
\* for the resolve that always reports success.
C9_ResolveOncePerCycle ==
    (smart /\ strategy = "ideal") => cyc <= 1

\* C10: resolve() is never invoked while a resolve() of the same state is in
\* progress; is_calculating is true for the whole of the invocation.
C10_NoReentrantResolve ==
    /\ depth <= 1
    /\ (pc = "resolve") = (depth = 1)
    /\ (pc = "resolve" => cache.is_calculating)

\* a resolve() in progress has assigned an input, a computed variable and a
\* declared parameter through the attribute-write protocol
C10_Witness ==
    /\ pc = "resolve"
    /\ depth = 1
    /\ ParamName \in declared
    /\ ParamName \in written
    /\ written \cap Inputs # {}
    /\ written \cap (STATE_VAR_FIELDS \ Inputs) # {}

\* the step is a call of swap_input_vars by the caller
IsSwap == pc = "caller" /\ lastOp'.op \in {"swap", "swap_error"}

\* the step is an assignment by the caller
IsAssign == pc = "caller" /\ lastOp'.op \in {"setattr", "setattr_error"}

\* the step is the caller's assignment  obj.n = value
AssignStep(n, value) ==
    /\ lastOp'.name = n
    /\ lastOp'.vk = value.k
    /\ CallerSetattr(n, value)

\* the step is the return of False from resolve()
FailStep ==
    /\ pc = "resolve"
    /\ pc' # "resolve"
    /\ ResolveReturn(FALSE)

\* C11: when A is an input and B is not, swap_input_vars(A, B) succeeds;
\* afterwards B is an input, A is not, the list is as long as before, and
\* no attribute and no flag has changed; a second swap_input_vars(A, B)
\* right after it raises and changes nothing.
C11_SwapReplacesInput ==
    [][IsSwap =>
         \A a \in SwapNames : \A b \in SwapNames :
            /\ (a \in Inputs /\ b \notin Inputs /\ swap_input_vars(a, b))
               => /\ lastOp'.op = "swap"
                  /\ b \in Inputs'
                  /\ a \notin Inputs'
                  /\ Len(cache'.input_vars_specified)
                       = Len(cache.input_vars_specified)
                  /\ [cache' EXCEPT !.input_vars_specified = <<>>]
                       = [cache EXCEPT !.input_vars_specified = <<>>]
                  /\ UNCHANGED <<val, other, pc, depth>>
            /\ (/\ lastOp.op = "swap"
                /\ a \notin Inputs
                /\ b \in Inputs
                /\ swap_input_vars(a, b))
               => /\ lastOp'.op = "swap_error"
                  /\ UNCHANGED <<val, other, cache>>]_vars

\* an input of a complete state has been swapped for another variable
C11_Witness ==
    /\ smart
    /\ pc = "caller"
    /\ lastOp.op = "swap"
    /\ cache.is_complete
    /\ Len(cache.input_vars_specified) = 2
    /\ "v" \in Inputs
    /\ "T" \notin Inputs
    /\ val["T"] # NoneV

\* C12: a swap_input_vars call whose variable to replace is not an input, or
\* whose replacement is already an input, raises and leaves the input list,
\* every attribute and every flag as they were.
C12_FailedSwapChangesNothing ==
    [][IsSwap =>
         \A a \in SwapNames : \A b \in SwapNames :
            ((a \notin Inputs \/ b \in Inputs) /\ swap_input_vars(a, b))
            => /\ lastOp'.op = "swap_error"
               /\ UNCHANGED <<val, other, cache, pc, depth>>]_vars

\* a swap was refused while both names were inputs
C12_Witness ==
    /\ smart
    /\ lastOp.op = "swap_error"
    /\ Inputs = SwapNames

\* C13 as claimed: a swap whose replacement holds no value is rejected.
C13_SwapNeedsValue ==
    [][IsSwap =>
         \A a \in SwapNames : \A b \in SwapNames :
            (val[b] = NoneV /\ swap_input_vars(a, b))
            => lastOp'.op = "swap_error"]_vars

\* C14 as claimed: whenever control is with the caller of a constructed
\* object - in particular when an error raised by resolve() has reached the
\* caller - the calculating flag is false.
C14_CalculatingClearedOnError ==
    pc = "caller" => ~cache.is_calculating

\* C15: when resolve() returns False, control returns to the handler that
\* triggered it, complete and calculating are false, and the two inputs and
\* their values are as they were; while resolve() runs the engine changes
\* neither the input list nor the value of an input resolve() did not assign.
C15_FailureLeavesUnresolved ==
    /\ [][FailStep
          => /\ pc' \in {"init", "caller"}
             /\ ~cache'.is_complete
             /\ ~cache'.is_calculating
             /\ cache'.is_specified
             /\ cache'.input_vars_specified = cache.input_vars_specified
             /\ Len(cache'.input_vars_specified) = 2
             /\ \A n \in Inputs : val'[n] = val[n]]_vars
    /\ [][pc = "resolve"
          => /\ cache'.input_vars_specified = cache.input_vars_specified
             /\ \A n \in Inputs \ written' : val'[n] = val[n]]_vars

\* the caller's assignment of the second input triggered a resolve() that
\* reported failure
C15_Witness ==
    /\ smart
    /\ strategy = "free"
    /\ pc = "caller"
    /\ CallerAssigned
    /\ lastOp.vk = "raw"
    /\ ~lastOp.wasInput
    /\ lastOp.name \in Inputs
    /\ Len(cache.input_vars_specified) = 2
    /\ cyc = 1
    /\ ~cache.is_complete
    /\ ~cache.is_calculating
    /\ \A n \in Inputs : val[n] # NoneV

\* the default units as the specification lists them
ClaimedUnit(n) ==
    CASE n = "T" -> "K"
      [] n = "P" -> "MPa"
      [] n = "v" -> "m3/mol"
      [] n \in {"u", "h"} -> "J/mol"
      [] n = "s" -> "J/mol/K"
      [] OTHER -> "dimensionless"

\* the value is a quantity of another dimension than the field's
Incompatible(n, value) ==
    /\ n \in STATE_VAR_FIELDS
    /\ value.k = "qty"
    /\ Dimension(value.u) # Dimension(ClaimedUnit(n))

\* the unit-normalised form of a value assigned to attribute n: a number
\* tagged with the default unit, 1000 kPa become 1 MPa
Normalised(n, value) ==
    IF n \notin STATE_VAR_FIELDS THEN value
    ELSE IF value.k = "raw" THEN Qty(ClaimedUnit(n), value.m)
    ELSE IF value = Qty("kPa", 1000) THEN Qty("MPa", 1)
    ELSE value

\* C16: in manual mode no input is ever recorded, resolve() is never
\* invoked, the state variables nobody assigns stay None, an assignment
\* stores the unit-normalised value in the named attribute and changes
\* nothing else, and smart_resolve() changes nothing.
C16_ManualModeIsPlain ==
    /\ [](~smart =>
            /\ cache = MinimalCache
            /\ cache.input_vars_specified = <<>>
            /\ pc # "resolve"
            /\ depth = 0
            /\ cyc = 0
            /\ \A n \in STATE_VAR_FIELDS \ AssignedNames : val[n] = NoneV)
    /\ [][(~smart /\ IsAssign) =>
          \A n \in CallerNames : \A value \in CallerValues(n) \cup QtyValues(n) :
            (AssignStep(n, value) /\ ~Incompatible(n, value))
            => /\ val' = IF n \in STATE_VAR_FIELDS
                         THEN [val EXCEPT ![n] = Normalised(n, value)]
                         ELSE val
               /\ other' = IF n \in OtherNames
                           THEN [other EXCEPT ![n] = value]
                           ELSE other
               /\ pc' = "caller"]_vars
    /\ [][(~smart /\ smart_resolve)
          => UNCHANGED <<val, other, cache, pc>>]_vars

\* in manual mode the caller has assigned T and then a pressure in kPa: two
\* state variables hold values and nothing was resolved
C16_Witness ==
    /\ ~smart
    /\ CallerAssigned
    /\ lastOp.name = "P"
    /\ lastOp.vk = "qty"
    /\ val["P"] = Qty("MPa", 1)
    /\ val["T"] = Qty("K", MaxVal)
    /\ val["x"] = NoneV

\* C17: in both modes every value held in T, P, v, u, h, s that is not None
\* (nor an empty container stored in manual mode) is a quantity in the
\* field's default unit; an assigned number keeps its magnitude, an
\* assigned quantity in another unit is converted.
C17_ValuesInDefaultUnit ==
    /\ [](\A n \in SeqRange(STATE_VAR_ORDERED_FIELDS) :
            val[n].k \notin {"none", "empty"}
            => val[n].k = "qty" /\ val[n].u = ClaimedUnit(n))
    /\ [][\A n \in AssignedNames :
            (/\ IsAssign
             /\ lastOp'.op = "setattr"
             /\ lastOp'.name = n
             /\ lastOp'.vk \in {"raw", "qty"})
            => \E value \in RawValues \cup QtyValues(n) :
                  /\ ~Incompatible(n, value)
                  /\ val'[n] = Normalised(n, value)
                  /\ CallerSetattr(n, value)]_vars

\* in tracked mode the caller assigned 1000 kPa to P, which now holds 1 MPa
\* beside a temperature in kelvin
C17_Witness ==
    /\ smart
    /\ CallerAssigned
    /\ lastOp.name = "P"
    /\ lastOp.vk = "qty"
    /\ val["P"] = Qty("MPa", 1)
    /\ val["T"].k = "qty"
    /\ val["T"].u = "K"

\* C18: assigning a quantity of an incompatible dimension to a state
\* variable raises and applies nothing: no attribute, no entry of the cache
\* changes and resolve() is not invoked.
C18_IncompatibleAppliesNothing ==
    [][(IsAssign /\ lastOp'.vk = "qty") =>
       \A n \in AssignedNames : \A value \in QtyValues(n) :
         (AssignStep(n, value) /\ Incompatible(n, value))
         => /\ lastOp'.op = "setattr_error"
            /\ UNCHANGED <<val, other, cache, pc, depth, cyc>>]_vars

\* a temperature was assigned to P of a tracked state that had one input:
\* had it been applied, resolve() would have been invoked
C18_Witness ==
    /\ smart
    /\ lastOp.op = "setattr_error"
    /\ lastOp.name = "P"
    /\ cache.input_vars_specified = <<"T">>
    /\ val["P"] = NoneV
    /\ cyc = 0

\* C19 as claimed: s1.delta(s2) is a mapping that has an entry for a state
\* variable exactly when both states hold a value for it, the entry being
\* s2's value minus s1's; and every entry of s1.delta(s2), the Pv entry
\* included, is the negation of the same entry of s2.delta(s1).
C19_DeltaIsAntisymmetric ==
    /\ d12 # NoneV =>
          /\ d12.k = "dict"
          /\ \A p \in STATE_VAR_FIELDS :
                (p \in DOMAIN d12.d) = (s1[p] # NoneV /\ s2[p] # NoneV)
          /\ \A p \in DOMAIN d12.d \cap STATE_VAR_FIELDS :
                d12.d[p] = Qty(s2[p].u, s2[p].m - s1[p].m)
    /\ (d12 # NoneV /\ d21 # NoneV) =>
          /\ d21.k = "dict"
          /\ "Pv" \in DOMAIN d12.d
          /\ DOMAIN d21.d = DOMAIN d12.d
          /\ \A p \in DOMAIN d12.d : d12.d[p].m = 0 - d21.d[p].m

\* the names of the properties in the report of reporter r
ReportedNames(r) == {report(r)[i].name : i \in 1..Len(report(r))}

\* C20 as claimed: the report of a reporter shows only properties added
\* through that reporter; in particular a reporter constructed without
\* arguments starts with none.
C20_ReportersAreSeparate ==
    \A r \in 1..2 : props[r] # "none" => ReportedNames(r) \subseteq added[r]

\* C21: for a scalar Cp and numeric T1, T2 (a bare number is in kelvin),
\* DeltaH_IG returns a quantity in J/mol whose magnitude is Cp * (T2 - T1):
\* the higher-order terms of the polynomial contribute nothing.
C21_ScalarCpIsLinear ==
    (dH # NoneV /\ Cp.k = "raw")
       => /\ dH.k = "qty"
          /\ dH.u = "J/mol"
          /\ dH.m12 = 12 * Cp.m * (InKelvin(T2) - InKelvin(T1))

\* reached: a nonzero scalar Cp over two different temperatures, one of
\* them a Quantity, and the enthalpy change has been computed
C21_Witness ==
    /\ dH # NoneV
    /\ Cp.k = "raw" /\ Cp.m > 0
    /\ T1.k = "qty" /\ T2.k = "raw"
    /\ InKelvin(T2) > InKelvin(T1)
    /\ InKelvin(T1) > 0

\* C22: in tracked mode an operation that does not invalidate leaves a true
\* complete flag true - here the caller assigns a value to a state variable
\* that is not an input of a complete state, and control is back with the
\* caller.
C22_CompleteSurvivesNonInput ==
    (/\ smart
     /\ pc = "caller"
     /\ CallerAssigned
     /\ lastOp.wasComplete
     /\ lastOp.name \in STATE_VAR_FIELDS
     /\ ~lastOp.wasInput
     /\ lastOp.vk = "raw")
    => cache.is_complete

\* C23: in tracked mode a state whose complete flag is true has exactly two
\* recorded inputs, and every declared parameter field holds a value and is
\* recorded as set; the specified and parameterized flags are true with it.
C23_CompleteImpliesSpecified ==
    (smart /\ cache.is_complete)
    => /\ Len(cache.input_vars_specified) = 2
       /\ \A param \in declared :
             /\ other[param] # NoneV
             /\ param \in SeqRange(cache.parameters_specified)
       /\ cache.is_specified
       /\ cache.is_parameterized

\* reached: a complete state of a subclass with a parameter, back with the
\* caller after a swap of its inputs
C23_Witness ==
    /\ smart
    /\ cache.is_complete
    /\ declared # {}
    /\ pc = "caller"
    /\ lastOp.op = "swap"

\* what the caller's assignment of value to the declared parameter does
ParamAssignEffect(value) ==
    AssignStep(ParamName, value)
    => /\ cache'.input_vars_specified = cache.input_vars_specified
       /\ \A n \in Inputs : val'[n] = val[n]
       /\ other'[ParamName] = value
       /\ cache'.parameters_specified =
             IF ParamName \in SeqRange(cache.parameters_specified)
             THEN cache.parameters_specified
             ELSE Append(cache.parameters_specified, ParamName)
       /\ \A n \in STATE_VAR_FIELDS \ Inputs : val'[n] = NoneV
       /\ ~cache'.is_complete
       /\ cache'.calculated_vars = {}
       /\ (pc' = "resolve")
             => /\ Len(cache'.input_vars_specified) = 2
                /\ \A param \in declared :
                      param \in SeqRange(cache'.parameters_specified)
                /\ written' = {}

\* the step is an assignment by the caller to the declared parameter of a
\* tracked state
IsParamAssign ==
    /\ IsAssign
    /\ smart
    /\ ParamName \in declared
    /\ lastOp'.name = ParamName

\* C24 as claimed: in tracked mode, assigning any value other than None to
\* a declared parameter keeps the input list and the input values, records
\* the parameter as set (once), clears every state variable that is not an
\* input and resets complete before resolve() is invoked again, which
\* happens only if two inputs and all parameters are recorded.
C24_ParamAssignInvalidates ==
    [][IsParamAssign =>
         \A value \in CallerValues(ParamName) \ {NoneV} :
            ParamAssignEffect(value)]_vars

\* C24, amended: the same for a value that is neither None nor an empty
\* container; an empty container is discarded like None.
C24_NonEmptyParamAssignInvalidates ==
    [][IsParamAssign =>
         \A value \in CallerValues(ParamName) \ {NoneV, EmptyV} :
            ParamAssignEffect(value)]_vars

\* reached: the caller gave a new value to the parameter of a complete
\* state, and resolve() has just been invoked on the cleared state
C24_Witness ==
    /\ smart
    /\ CallerAssigned
    /\ lastOp.name = ParamName
    /\ lastOp.vk = "raw"
    /\ lastOp.wasComplete
    /\ lastOp.hadValue
    /\ pc = "resolve"
    /\ written = {}
    /\ \A n \in STATE_VAR_FIELDS \ Inputs : val[n] = NoneV

\* the step is an assignment by the caller, to a tracked state, of an
\* attribute that is neither a state variable nor a declared parameter
IsOtherAssign ==
    /\ IsAssign
    /\ smart
    /\ lastOp'.name \notin STATE_VAR_FIELDS \cup declared

\* what such an assignment of value to the attribute n does
OtherAssignEffect(n, value) ==
    AssignStep(n, value)
    => /\ other' = [other EXCEPT ![n] = value]
       /\ UNCHANGED <<val, cache, pc, depth, written, cyc>>

\* C25 as claimed: in tracked mode, assigning any value other than None to
\* an attribute that is neither a state variable nor a declared parameter
\* stores the value as given and does nothing else: the input list, the state
\* variables and the flags of the cache keep their values and resolve() is
\* not invoked.
C25_OtherAttributeIsStored ==
    [][IsOtherAssign =>
         \A n \in CallerNames \ (STATE_VAR_FIELDS \cup declared) :
            \A value \in CallerValues(n) \ {NoneV} :
               OtherAssignEffect(n, value)]_vars

\* C25, amended: the same for a value that is neither None nor an empty
\* container; an empty container is discarded like None.
C25_NonEmptyOtherAttributeIsStored ==
    [][IsOtherAssign =>
         \A n \in CallerNames \ (STATE_VAR_FIELDS \cup declared) :
            \A value \in CallerValues(n) \ {NoneV, EmptyV} :
               OtherAssignEffect(n, value)]_vars

\* reached: the caller gave a complete state of a class without parameter
\* fields a new attribute
C25_Witness ==
    /\ smart
    /\ CallerAssigned
    /\ declared = {}
    /\ lastOp.name = ParamName
    /\ lastOp.vk = "raw"
    /\ ~lastOp.hadValue
    /\ other[ParamName] = Raw(1)
    /\ cache.is_complete
    /\ pc = "caller"

\* the step is an assignment, by __init__ or by the caller, that names a
\* state variable and a value of a kind outside skipped, and does not raise
StateVarAssign(skipped) ==
    /\ pc \in {"init", "caller"}
    /\ lastOp'.op = "setattr"
    /\ lastOp'.name \in STATE_VAR_FIELDS
    /\ lastOp'.vk \notin skipped

\* One step of "the input list is the first two distinct state-variable
\* names that were assigned, in the order of their assignment": an
\* assignment of a new name to a list shorter than two appends the name,
\* every other step leaves the list as it is.
FirstTwoStep(skipped) ==
    LET inputs == cache.input_vars_specified
    IN  cache'.input_vars_specified =
           IF /\ StateVarAssign(skipped)
              /\ Len(inputs) < 2
              /\ lastOp'.name \notin SeqRange(inputs)
           THEN Append(inputs, lastOp'.name)
           ELSE inputs

\* C26 as claimed: in tracked mode, where swap_input_vars is not called, the
\* input list is the first two distinct state variables assigned a value
\* other than None, in the order of their assignment; a recorded name is
\* never removed or moved, and a list of two never changes.
C26_InputsAreFirstTwoAssigned ==
    [][smart => FirstTwoStep({"none"})]_vars

\* C26, amended: the same, counting the assignments of a value that is
\* neither None nor an empty container.
C26_InputsAreFirstTwoNonEmptyAssigned ==
    [][smart => FirstTwoStep({"none", "empty"})]_vars

\* reached: the constructor was given P and x, in that order, and the
\* caller then assigned T, which did not become an input
C26_Witness ==
    /\ smart
    /\ cache.input_vars_specified = <<"P", "x">>
    /\ CallerAssigned
    /\ lastOp.name = "T"
    /\ lastOp.vk \in {"raw", "qty"}
    /\ val["T"] # NoneV

\* the step is a read of a cached property by the caller
IsRead == pc = "caller" /\ lastOp'.op \in {"read_calc", "read_cached"}

\* the step runs _invalidate on a tracked state: __init__, the caller or
\* resolve() assigns a value to a recorded input or to a declared parameter
Invalidates ==
    /\ smart
    /\ \/ /\ pc \in {"init", "caller"}
          /\ lastOp'.op = "setattr"
          /\ lastOp'.vk \notin {"none", "empty"}
          /\ lastOp'.name \in Inputs' \cup declared
       \/ /\ pc = "resolve"
          /\ (written' \ written) \cap (Inputs \cup declared) # {}

\* C27: in tracked mode a read of a cached property calls the calculator
\* exactly when the property has no cached value, and caches the value; a
\* cached value stays until an invalidation, and every invalidation empties
\* the cache of calculated properties.  In manual mode every read calls the
\* calculator and nothing is cached.
C27_CalculatorRunsOncePerCycle ==
    [][/\ IsRead =>
            \A key \in PropNames :
               (lastOp'.name = key /\ ReadProperty(key))
               => IF smart
                  THEN /\ (lastOp'.op = "read_calc")
                             = (key \notin CachedKeys(cache))
                       /\ CachedKeys(cache') = CachedKeys(cache) \cup {key}
                       /\ cache.calculated_vars \subseteq cache'.calculated_vars
                  ELSE /\ lastOp'.op = "read_calc"
                       /\ cache' = cache
       /\ Invalidates => cache'.calculated_vars = {}
       /\ (smart /\ ~Invalidates)
             => cache.calculated_vars \subseteq cache'.calculated_vars
       /\ ~smart => cache'.calculated_vars = {}]_vars

\* reached: both properties of a complete tracked state are cached and the
\* last read was served from the cache
C27_Witness ==
    /\ smart
    /\ cache.is_complete
    /\ lastOp.op = "read_cached"
    /\ CachedKeys(cache) = PropNames
    /\ CachedValue(cache, "Pv") # Raw(0)

\* C28: in tracked mode, at the moment resolve() is invoked - before it has
\* assigned anything - every state variable that is not an input is None.
C28_ResolveStartsClean ==
    (smart /\ pc = "resolve" /\ written = {})
    => \A n \in STATE_VAR_FIELDS \ Inputs : val[n] = NoneV

\* C29: whatever the caller assigns and swaps, every name in the input list
\* is one of the state variables T, P, v, s, h, u, x.
C29_InputsAreStateVariables ==
    Inputs \subseteq STATE_VAR_FIELDS

====
